---- MODULE Spec2Model ----
(***************************************************************************)
(* Model of python_employee_etl.py: the SCD Type II employee ETL.          *)
(*                                                                         *)
(* One run of main() parses a JSON file into three lists (new employees,   *)
(* address updates, name/address updates), then set_employee applies the   *)
(* three lists, in that order, to hr.dim_employee inside one transaction,  *)
(* and validate_data_quality re-reads the committed table.                 *)
(*                                                                         *)
(* Dates are day numbers; Python None / SQL NULL is the value NULL.        *)
(* The audit columns created_date / updated_date (CURRENT_TIMESTAMP) carry *)
(* no logic and are left out of the row.                                   *)
(***************************************************************************)
EXTENDS Integers, Sequences, FiniteSets, TLC

\* ------------------------------------------------------------------ bounds
\* records processed in all, over every run of main() against the store
MaxEvents == 3
\* calendar days the clock may reach (date.today() is 1..MaxDay)
MaxDay == 2

\* ------------------------------------------------------------- constants
\* date(9999, 12, 31) as a day number (its proleptic ordinal)
ExpirySentinel == 3652059

NULL == "<null>"

Employees == {"E1", "E2"}

AddressFields ==
    {"address_line1", "address_line2", "city", "state_province", "postal_code",
     "country_code"}

\* ---------------------------------------------------------- input payloads
\* employee_data of an INSERT record: every field present.
NewEmployeeData(e) ==
    [employee_id |-> e, first_name |-> "Ana", last_name |-> "Diaz",
     email_address |-> "ana@x.pe", phone_number |-> "555", birth_date |-> "1990-01-01",
     gender |-> "F", ethnicity |-> NULL, nationality |-> "PE", marital_status |-> "S",
     address_line1 |-> "Av. Sol 1", address_line2 |-> NULL, city |-> "Lima",
     state_province |-> "LIM", postal_code |-> "15001", country_code |-> "PE",
     hire_date |-> "2020-01-01"]

\* the address part of an update record: a full address, or only the city
\* (every other key absent, so .get() yields None).
FullAddress ==
    [address_line1 |-> "Jr. Puno 9", address_line2 |-> "Of. 2", city |-> "Arequipa",
     state_province |-> "ARE", postal_code |-> "04001", country_code |-> "PE"]

CityOnly ==
    [address_line1 |-> NULL, address_line2 |-> NULL, city |-> "Cusco",
     state_province |-> NULL, postal_code |-> NULL, country_code |-> NULL]

AddressPayloads == {FullAddress, CityOnly}

\* <<last_name, address>> of a name/address update: a new last name with a
\* full address, or no last_name key with only the city.
NameAddressPayloads == {<<"Ruiz", FullAddress>>, <<NULL, CityOnly>>}

\* employee_data of an update record: the fields the extractors read.
UpdateData(e, ln, a) ==
    [employee_id |-> e, first_name |-> NULL, last_name |-> ln,
     email_address |-> NULL, phone_number |-> NULL, birth_date |-> NULL,
     gender |-> NULL, ethnicity |-> NULL, nationality |-> NULL, marital_status |-> NULL,
     address_line1 |-> a.address_line1, address_line2 |-> a.address_line2,
     city |-> a.city, state_province |-> a.state_province,
     postal_code |-> a.postal_code, country_code |-> a.country_code,
     hire_date |-> NULL]

\* the records data['employees'] may hold
EmployeeRecords ==
    { [operation_type |-> "INSERT", employee_data |-> NewEmployeeData(e)] :
        e \in Employees }
    \cup
    { [operation_type |-> "UPDATE_ADDRESS", employee_data |-> UpdateData(e, NULL, a)] :
        e \in Employees, a \in AddressPayloads }
    \cup
    { [operation_type |-> "UPDATE_NAME_ADDRESS",
       employee_data |-> UpdateData(e, na[1], na[2])] :
        e \in Employees, na \in NameAddressPayloads }
    \cup
    { [operation_type |-> "DELETE", employee_data |-> UpdateData("E1", NULL, CityOnly)] }

\* the files of n records
InputFiles(n) == [1..n -> EmployeeRecords]

\* ------------------------------------------------------------------ state
VARIABLES
    table,        \* hr.dim_employee as this connection sees it (rows in key order)
    committed,    \* hr.dim_employee as last committed
    nextKey,      \* the employee_key sequence (a sequence is not rolled back)
    today,        \* date.today()
    seen,         \* history: records read so far, over all runs
    pc,           \* position of main(): idle, parsed, run, except, returned,
                  \* validated, validate_except
    cur,          \* <<phase, index>> of set_employee's three loops; phase 4 = commit
    file,         \* data['employees'] of the file being processed
    parsed_data,  \* parse_employee_data's result
    autocommit,   \* connection.autocommit
    result,       \* set_employee's return value
    counts,       \* new_count, address_count, name_count
    quality,      \* validate_data_quality's return value
    before,       \* history: the table when set_employee started
    trace         \* history: one entry per event applied by this set_employee

vars ==
    <<table, committed, nextKey, today, seen, pc, cur, file, parsed_data,
      autocommit, result, counts, quality, before, trace>>

\* ---------------------------------------------------------------- parsing
\* f"{first} {last}": None formats as "None"
PyStr(v) == IF v = NULL THEN "None" ELSE v

\* f"{a} {b}".strip() for values without surrounding blanks
JoinStrip(a, b) ==
    IF a = "" /\ b = "" THEN ""
    ELSE IF a = "" THEN b
    ELSE IF b = "" THEN a
    ELSE a \o " " \o b

\* pos is a history field: the record's index in the input file.
_extract_new_employee_data(d, pos, day) ==
    [employee_id |-> d.employee_id, first_name |-> d.first_name,
     last_name |-> d.last_name,
     full_name |-> JoinStrip(PyStr(d.first_name), PyStr(d.last_name)),
     email_address |-> d.email_address, phone_number |-> d.phone_number,
     birth_date |-> d.birth_date, gender |-> d.gender, ethnicity |-> d.ethnicity,
     nationality |-> d.nationality, marital_status |-> d.marital_status,
     address_line1 |-> d.address_line1, address_line2 |-> d.address_line2,
     city |-> d.city, state_province |-> d.state_province,
     postal_code |-> d.postal_code, country_code |-> d.country_code,
     hire_date |-> d.hire_date, is_active |-> TRUE, effective_date |-> day,
     expiry_date |-> ExpirySentinel, is_current |-> TRUE, pos |-> pos]

_extract_address_update_data(d, pos, day) ==
    [employee_id |-> d.employee_id,
     address_line1 |-> d.address_line1, address_line2 |-> d.address_line2,
     city |-> d.city, state_province |-> d.state_province,
     postal_code |-> d.postal_code, country_code |-> d.country_code,
     effective_date |-> day, pos |-> pos]

_extract_name_address_update_data(d, pos, day) ==
    [employee_id |-> d.employee_id, last_name |-> d.last_name,
     address_line1 |-> d.address_line1, address_line2 |-> d.address_line2,
     city |-> d.city, state_province |-> d.state_province,
     postal_code |-> d.postal_code, country_code |-> d.country_code,
     effective_date |-> day, pos |-> pos]

\* the input positions whose operation_type is k, in file order
PositionsOf(f, k) ==
    SelectSeq([i \in 1..Len(f) |-> i], LAMBDA i : f[i].operation_type = k)

\* the for loop of parse_employee_data: each record goes to the list of its
\* operation type; a record of any other type goes nowhere.
parse_employee_data(f, day) ==
    LET ins == PositionsOf(f, "INSERT")
        adr == PositionsOf(f, "UPDATE_ADDRESS")
        nam == PositionsOf(f, "UPDATE_NAME_ADDRESS")
    IN  [new_employees |->
            [j \in 1..Len(ins) |->
                _extract_new_employee_data(f[ins[j]].employee_data, ins[j], day)],
         address_updates |->
            [j \in 1..Len(adr) |->
                _extract_address_update_data(f[adr[j]].employee_data, adr[j], day)],
         name_and_address_updates |->
            [j \in 1..Len(nam) |->
                _extract_name_address_update_data(f[nam[j]].employee_data, nam[j], day)]]

NoParsedData ==
    [new_employees |-> <<>>, address_updates |-> <<>>,
     name_and_address_updates |-> <<>>]

\* ------------------------------------------------------------------ store
\* INSERT INTO hr.dim_employee of _insert_new_employees: termination_date NULL
NewEmployeeRow(key, p) ==
    [employee_key |-> key, employee_id |-> p.employee_id,
     first_name |-> p.first_name, last_name |-> p.last_name,
     full_name |-> p.full_name, email_address |-> p.email_address,
     phone_number |-> p.phone_number, birth_date |-> p.birth_date,
     gender |-> p.gender, ethnicity |-> p.ethnicity, nationality |-> p.nationality,
     marital_status |-> p.marital_status,
     address_line1 |-> p.address_line1, address_line2 |-> p.address_line2,
     city |-> p.city, state_province |-> p.state_province,
     postal_code |-> p.postal_code, country_code |-> p.country_code,
     hire_date |-> p.hire_date, termination_date |-> NULL,
     is_active |-> p.is_active, effective_date |-> p.effective_date,
     expiry_date |-> p.expiry_date, is_current |-> p.is_current]

\* a close that forgets the "- INTERVAL '1 day'"
DayBeforeSameDay(d) == d

\* %s - INTERVAL '1 day'
DayBefore(d) == d - 1

\* a close without "AND is_current = TRUE": every row of the employee is closed
CloseCurrentEveryRow(t, emp, d) ==
    [i \in 1..Len(t) |->
        IF t[i].employee_id = emp
        THEN [t[i] EXCEPT !.expiry_date = DayBefore(d), !.is_current = FALSE]
        ELSE t[i]]

\* a close that clears is_current and leaves expiry_date alone
CloseCurrentKeepsExpiry(t, emp, d) ==
    [i \in 1..Len(t) |->
        IF t[i].employee_id = emp /\ t[i].is_current
        THEN [t[i] EXCEPT !.is_current = FALSE]
        ELSE t[i]]

\* a close guarded by "AND effective_date < %s": a version that became
\* effective on the event's own date is not closed
CloseCurrentOnlyOlder(t, emp, d) ==
    [i \in 1..Len(t) |->
        IF t[i].employee_id = emp /\ t[i].is_current /\ t[i].effective_date < d
        THEN [t[i] EXCEPT !.expiry_date = DayBefore(d), !.is_current = FALSE]
        ELSE t[i]]

\* a close that stops after the first current row of the employee
CloseCurrentFirstOnly(t, emp, d) ==
    [i \in 1..Len(t) |->
        IF /\ t[i].employee_id = emp
           /\ t[i].is_current = TRUE
           /\ \A j \in 1..(i - 1) : ~(t[j].employee_id = emp /\ t[j].is_current = TRUE)
        THEN [t[i] EXCEPT !.expiry_date = DayBefore(d), !.is_current = FALSE]
        ELSE t[i]]

\* close_sql: UPDATE ... SET expiry_date, is_current = FALSE
\*            WHERE employee_id = %s AND is_current = TRUE
CloseCurrent(t, emp, d) ==
    [i \in 1..Len(t) |->
        IF t[i].employee_id = emp /\ t[i].is_current
        THEN [t[i] EXCEPT !.expiry_date = DayBefore(d), !.is_current = FALSE]
        ELSE t[i]]

\* rows the close_sql UPDATE touches
CurrentCount(t, emp) ==
    Cardinality({i \in 1..Len(t) : t[i].employee_id = emp /\ t[i].is_current})

\* select_sql: WHERE employee_id = %s AND expiry_date = %s - INTERVAL '1 day'
\*             ORDER BY employee_key DESC LIMIT 1; fetchone() -> index, 0 for None
SelectExisting(t, emp, d) ==
    LET hits == {i \in 1..Len(t) :
                    t[i].employee_id = emp /\ t[i].expiry_date = DayBefore(d)}
    IN  IF hits = {} THEN 0
        ELSE CHOOSE i \in hits : \A j \in hits : t[j].employee_key <= t[i].employee_key

\* insert_params / insert_sql of _update_employee_addresses
AddressVersionRow(key, ex, u) ==
    [employee_key |-> key, employee_id |-> ex.employee_id,
     first_name |-> ex.first_name, last_name |-> ex.last_name,
     full_name |-> ex.full_name, email_address |-> ex.email_address,
     phone_number |-> ex.phone_number, birth_date |-> ex.birth_date,
     gender |-> ex.gender, ethnicity |-> ex.ethnicity, nationality |-> ex.nationality,
     marital_status |-> ex.marital_status,
     address_line1 |-> u.address_line1, address_line2 |-> u.address_line2,
     city |-> u.city, state_province |-> u.state_province,
     postal_code |-> u.postal_code, country_code |-> u.country_code,
     hire_date |-> ex.hire_date, termination_date |-> ex.termination_date,
     is_active |-> ex.is_active, effective_date |-> u.effective_date,
     expiry_date |-> ExpirySentinel, is_current |-> TRUE]

\* insert_params / insert_sql of _update_employee_names_addresses
NameAddressVersionRow(key, ex, u) ==
    [employee_key |-> key, employee_id |-> ex.employee_id,
     first_name |-> ex.first_name, last_name |-> u.last_name,
     full_name |-> PyStr(ex.first_name) \o " " \o PyStr(u.last_name),
     email_address |-> ex.email_address,
     phone_number |-> ex.phone_number, birth_date |-> ex.birth_date,
     gender |-> ex.gender, ethnicity |-> ex.ethnicity, nationality |-> ex.nationality,
     marital_status |-> ex.marital_status,
     address_line1 |-> u.address_line1, address_line2 |-> u.address_line2,
     city |-> u.city, state_province |-> u.state_province,
     postal_code |-> u.postal_code, country_code |-> u.country_code,
     hire_date |-> ex.hire_date, termination_date |-> ex.termination_date,
     is_active |-> ex.is_active, effective_date |-> u.effective_date,
     expiry_date |-> ExpirySentinel, is_current |-> TRUE]

\* an except clause that returns False without undoing the transaction
RolledBackKeepsWrites(t, c) == t

\* connection.rollback(): the connection sees the last committed table again
RolledBack(t, c) == c

\* connection.commit(): what the connection sees becomes the committed table
Committed(t, c) == t


\* --------------------------------------------------------- quality checks
\* dup_check_sql: employee_id ... WHERE is_current GROUP BY employee_id HAVING COUNT(*) > 1
DuplicateCurrents(t) == {e \in Employees : CurrentCount(t, e) > 1}

\* date_check_sql: rows WHERE effective_date >= expiry_date
InvalidDates(t) == {i \in 1..Len(t) : t[i].effective_date >= t[i].expiry_date}

\* a validation that forgets the date-range query
validate_duplicates_only(t) == DuplicateCurrents(t) = {}

validate_data_quality(t) ==
    IF DuplicateCurrents(t) # {} THEN FALSE
    ELSE IF InvalidDates(t) # {} THEN FALSE
    ELSE TRUE

\* the operation types parse_employee_data routes, and those of the two
\* update loops
SupportedTypes == {"INSERT", "UPDATE_ADDRESS", "UPDATE_NAME_ADDRESS"}

ChangeTypes == {"UPDATE_ADDRESS", "UPDATE_NAME_ADDRESS"}

\* ---------------------------------------------------------- set_employee
PhaseNames == <<"new_employees", "address_updates", "name_and_address_updates">>

\* the position of the next loop iteration: the three for loops run one after
\* the other, an exhausted (or empty) list falls through to the next, and
\* after the third comes connection.commit() (phase 4).
RECURSIVE Skip(_, _, _)
Skip(pd, ph, idx) ==
    IF ph > 3 THEN <<4, 1>>
    ELSE IF idx <= Len(pd[PhaseNames[ph]]) THEN <<ph, idx>>
    ELSE Skip(pd, ph + 1, 1)

NoCounts == [new_count |-> 0, address_count |-> 0, name_count |-> 0]

TraceEntry(kind, u, t, prior, new) ==
    [pos |-> u.pos, operation_type |-> kind, employee_id |-> u.employee_id,
     effective_date |-> u.effective_date,
     current_before |-> CurrentCount(t, u.employee_id),
     prior_key |-> prior, new_key |-> new]

Init ==
    /\ table = <<>>
    /\ committed = <<>>
    /\ nextKey = 1
    /\ today = 1
    /\ seen = 0
    /\ pc = "idle"
    /\ cur = <<0, 0>>
    /\ file = <<>>
    /\ parsed_data = NoParsedData
    /\ autocommit = FALSE
    /\ result = FALSE
    /\ counts = NoCounts
    /\ quality = FALSE
    /\ before = <<>>
    /\ trace = <<>>

\* midnight passes between two runs
Tick ==
    /\ pc = "idle"
    /\ today < MaxDay
    /\ today' = today + 1
    /\ UNCHANGED <<table, committed, nextKey, seen, pc, cur, file, parsed_data,
                   autocommit, result, counts, quality, before, trace>>

\* main, steps 1 and 2: connect (psycopg2 connections start with autocommit
\* off) and parse the file
ParseFile(f) ==
    /\ pc = "idle"
    /\ seen' = seen + Len(f)
    /\ file' = f
    /\ parsed_data' = parse_employee_data(f, today)
    /\ autocommit' = FALSE
    /\ pc' = "parsed"
    /\ UNCHANGED <<table, committed, nextKey, today, cur, result, counts, quality,
                   before, trace>>

\* set_employee up to the first loop iteration
Begin ==
    /\ pc = "parsed"
    /\ autocommit' = FALSE
    /\ cur' = Skip(parsed_data, 1, 1)
    /\ counts' = NoCounts
    /\ before' = table
    /\ trace' = <<>>
    /\ pc' = "run"
    /\ UNCHANGED <<table, committed, nextKey, today, seen, file, parsed_data,
                   result, quality>>

\* an insert loop that commits after every row
InsertNewEmployeeAutocommit ==
    /\ pc = "run"
    /\ cur[1] = 1
    /\ LET employee == parsed_data.new_employees[cur[2]]
       IN  /\ table' = Append(table, NewEmployeeRow(nextKey, employee))
           /\ trace' = Append(trace, TraceEntry("INSERT", employee, table, 0, nextKey))
    /\ committed' = table'
    /\ nextKey' = nextKey + 1
    /\ counts' = [counts EXCEPT !.new_count = @ + 1]
    /\ cur' = Skip(parsed_data, 1, cur[2] + 1)
    /\ UNCHANGED <<today, seen, pc, file, parsed_data, autocommit,
                   result, quality, before>>

\* one iteration of _insert_new_employees
InsertNewEmployee ==
    /\ pc = "run"
    /\ cur[1] = 1
    /\ LET employee == parsed_data.new_employees[cur[2]]
       IN  /\ table' = Append(table, NewEmployeeRow(nextKey, employee))
           /\ trace' = Append(trace, TraceEntry("INSERT", employee, table, 0, nextKey))
    /\ nextKey' = nextKey + 1
    /\ counts' = [counts EXCEPT !.new_count = @ + 1]
    /\ cur' = Skip(parsed_data, 1, cur[2] + 1)
    /\ UNCHANGED <<committed, today, seen, pc, file, parsed_data, autocommit,
                   result, quality, before>>

\* cursor.execute(insert_sql) raises psycopg2.Error: logged and re-raised
InsertNewEmployeeFails ==
    /\ pc = "run"
    /\ cur[1] = 1
    /\ pc' = "except"
    /\ UNCHANGED <<table, committed, nextKey, today, seen, cur, file, parsed_data,
                   autocommit, result, counts, quality, before, trace>>

\* an insert that writes the new version as a closed row
VersionRowNotCurrent(kind, key, ex, u) ==
    IF kind = "UPDATE_ADDRESS"
    THEN [AddressVersionRow(key, ex, u) EXCEPT !.is_current = FALSE]
    ELSE [NameAddressVersionRow(key, ex, u) EXCEPT !.is_current = FALSE]

\* the new row of an update: each update loop has its own insert_params
VersionRow(kind, key, ex, u) ==
    IF kind = "UPDATE_ADDRESS" THEN AddressVersionRow(key, ex, u)
    ELSE NameAddressVersionRow(key, ex, u)

\* the body of the update loops: close, select, and insert when a row was
\* fetched.
ApplyUpdate(kind, u, counter) ==
    LET closed == CloseCurrent(table, u.employee_id, u.effective_date)
        ex == SelectExisting(closed, u.employee_id, u.effective_date)
    IN  IF ex # 0
        THEN /\ table' = Append(closed, VersionRow(kind, nextKey, closed[ex], u))
             /\ nextKey' = nextKey + 1
             /\ counts' = [counts EXCEPT ![counter] = @ + 1]
             /\ trace' = Append(trace,
                    TraceEntry(kind, u, table, closed[ex].employee_key, nextKey))
        ELSE /\ table' = closed
             /\ UNCHANGED <<nextKey, counts>>
             /\ trace' = Append(trace, TraceEntry(kind, u, table, 0, 0))

\* one of the three cursor.execute calls of an update iteration raises: the
\* close has been applied unless it is the close itself that failed.
FailUpdate(u, stage) ==
    LET closed == CloseCurrent(table, u.employee_id, u.effective_date)
        ex == SelectExisting(closed, u.employee_id, u.effective_date)
    IN  /\ stage = "insert" => ex # 0
        /\ table' = IF stage = "close" THEN table ELSE closed
        /\ pc' = "except"

\* one iteration of _update_employee_addresses
UpdateAddress ==
    /\ pc = "run"
    /\ cur[1] = 2
    /\ ApplyUpdate("UPDATE_ADDRESS", parsed_data.address_updates[cur[2]],
                   "address_count")
    /\ cur' = Skip(parsed_data, 2, cur[2] + 1)
    /\ UNCHANGED <<committed, today, seen, pc, file, parsed_data, autocommit,
                   result, quality, before>>

UpdateAddressFails(stage) ==
    /\ pc = "run"
    /\ cur[1] = 2
    /\ FailUpdate(parsed_data.address_updates[cur[2]], stage)
    /\ UNCHANGED <<committed, nextKey, today, seen, cur, file, parsed_data,
                   autocommit, result, counts, quality, before, trace>>

\* one iteration of _update_employee_names_addresses
UpdateNameAddress ==
    /\ pc = "run"
    /\ cur[1] = 3
    /\ ApplyUpdate("UPDATE_NAME_ADDRESS", parsed_data.name_and_address_updates[cur[2]],
                   "name_count")
    /\ cur' = Skip(parsed_data, 3, cur[2] + 1)
    /\ UNCHANGED <<committed, today, seen, pc, file, parsed_data, autocommit,
                   result, quality, before>>

UpdateNameAddressFails(stage) ==
    /\ pc = "run"
    /\ cur[1] = 3
    /\ FailUpdate(parsed_data.name_and_address_updates[cur[2]], stage)
    /\ UNCHANGED <<committed, nextKey, today, seen, cur, file, parsed_data,
                   autocommit, result, counts, quality, before, trace>>

\* connection.commit(), return True, and the finally clause
Commit ==
    /\ pc = "run"
    /\ cur[1] = 4
    /\ committed' = Committed(table, committed)
    /\ result' = TRUE
    /\ autocommit' = TRUE
    /\ pc' = "returned"
    /\ UNCHANGED <<table, nextKey, today, seen, cur, file, parsed_data, counts,
                   quality, before, trace>>

\* connection.commit() raises
CommitFails ==
    /\ pc = "run"
    /\ cur[1] = 4
    /\ pc' = "except"
    /\ UNCHANGED <<table, committed, nextKey, today, seen, cur, file, parsed_data,
                   autocommit, result, counts, quality, before, trace>>

\* an except path that returns without the finally clause
RollbackLeavesManualMode ==
    /\ pc = "except"
    /\ table' = RolledBack(table, committed)
    /\ result' = FALSE
    /\ pc' = "returned"
    /\ UNCHANGED <<committed, nextKey, today, seen, cur, file, parsed_data, counts,
                   quality, before, trace, autocommit>>

\* except Exception: connection.rollback(), return False, and the finally clause
Rollback ==
    /\ pc = "except"
    /\ table' = RolledBack(table, committed)
    /\ result' = FALSE
    /\ autocommit' = TRUE
    /\ pc' = "returned"
    /\ UNCHANGED <<committed, nextKey, today, seen, cur, file, parsed_data, counts,
                   quality, before, trace>>

\* a validation that treats a quality issue as a reason to undo the batch
ValidateUndoesBatch ==
    /\ pc = "returned"
    /\ result = TRUE
    /\ quality' = validate_data_quality(table)
    /\ pc' = "validated"
    /\ table' = IF quality' THEN table ELSE before
    /\ committed' = IF quality' THEN committed ELSE before
    /\ UNCHANGED <<nextKey, today, seen, cur, file, parsed_data,
                   autocommit, result, counts, before, trace>>

\* main, step 4: only when set_employee returned True
Validate ==
    /\ pc = "returned"
    /\ result = TRUE
    /\ quality' = validate_data_quality(table)
    /\ pc' = "validated"
    /\ UNCHANGED <<table, committed, nextKey, today, seen, cur, file, parsed_data,
                   autocommit, result, counts, before, trace>>

\* one of the two cursor.execute calls of validate_data_quality raises:
\* except Exception logs and returns False
ValidateFails ==
    /\ pc = "returned"
    /\ result = TRUE
    /\ quality' = FALSE
    /\ pc' = "validate_except"
    /\ UNCHANGED <<table, committed, nextKey, today, seen, cur, file, parsed_data,
                   autocommit, result, counts, before, trace>>

\* main ends (sys.exit(1) after a failed set_employee) and closes the connection
Exit ==
    /\ \/ pc \in {"validated", "validate_except"}
       \/ pc = "returned" /\ result = FALSE
    /\ pc' = "idle"
    /\ cur' = <<0, 0>>
    /\ file' = <<>>
    /\ parsed_data' = NoParsedData
    /\ autocommit' = FALSE
    /\ result' = FALSE
    /\ counts' = NoCounts
    /\ quality' = FALSE
    /\ before' = <<>>
    /\ trace' = <<>>
    /\ UNCHANGED <<table, committed, nextKey, today, seen>>

UpdateStages == {"close", "select", "insert"}

Next ==
    \/ Tick
    \/ \E n \in 0..(MaxEvents - seen) : \E f \in InputFiles(n) : ParseFile(f)
    \/ Begin
    \/ InsertNewEmployee
    \/ InsertNewEmployeeFails
    \/ UpdateAddress
    \/ \E stage \in UpdateStages : UpdateAddressFails(stage)
    \/ UpdateNameAddress
    \/ \E stage \in UpdateStages : UpdateNameAddressFails(stage)
    \/ Commit
    \/ CommitFails
    \/ Rollback
    \/ Validate
    \/ ValidateFails
    \/ Exit

Spec == Init /\ [][Next]_vars

\* hr.dim_employee is a table of the database the program connects to, and it
\* may hold rows written before this program's first run. FormerEmployeeTable
\* is such a table: E1 was loaded on day -1 and its row was closed with expiry
\* day 0 when E1 left; no current row of E1 remains.
FormerEmployeeTable ==
    LET hired == NewEmployeeRow(1, _extract_new_employee_data(NewEmployeeData("E1"), 1, -1))
    IN  <<[hired EXCEPT !.expiry_date = 0, !.is_current = FALSE, !.is_active = FALSE]>>

\* the program's first run finds FormerEmployeeTable
InitFormerEmployee ==
    /\ table = FormerEmployeeTable
    /\ committed = FormerEmployeeTable
    /\ nextKey = Len(FormerEmployeeTable) + 1
    /\ today = 1
    /\ seen = 0
    /\ pc = "idle"
    /\ cur = <<0, 0>>
    /\ file = <<>>
    /\ parsed_data = NoParsedData
    /\ autocommit = FALSE
    /\ result = FALSE
    /\ counts = NoCounts
    /\ quality = FALSE
    /\ before = <<>>
    /\ trace = <<>>

SpecFormerEmployee == InitFormerEmployee /\ [][Next]_vars

\* ------------------------------------------------- two concurrent batches
\* Two runs of main, each on its own connection to the same database, each
\* with a file of one attribute-change record. The database is PostgreSQL at
\* its default isolation level (READ COMMITTED): a statement sees what was
\* committed when it started plus its own transaction's writes, an UPDATE
\* waits for a row another transaction has updated and then re-checks its
\* WHERE clause on the row's committed version, and rows committed after the
\* statement started are not visited.
\* In this specification the per-run variables are functions over Conns:
\* pc[c], file[c], parsed_data[c], result[c], trace[c]; table[c] holds the
\* writes of c's open transaction, before[c] the keys the running close
\* statement found in its snapshot, cur[c] the tuple fetched by the SELECT.
Conns == {1, 2}

ChangeFiles == {f \in InputFiles(1) : f[1].operation_type \in ChangeTypes}

\* the table after a run on day 1 inserted E1 and E2
TwoEmployeesTable ==
    <<NewEmployeeRow(1, _extract_new_employee_data(NewEmployeeData("E1"), 1, 1)),
      NewEmployeeRow(2, _extract_new_employee_data(NewEmployeeData("E2"), 2, 1))>>

NoWrites == [closed |-> {}, inserted |-> <<>>]

\* the single update of connection c's batch and the loop it is in
RaceKind(c) ==
    IF parsed_data[c].address_updates # <<>> THEN "UPDATE_ADDRESS"
    ELSE "UPDATE_NAME_ADDRESS"

RaceEvent(c) ==
    IF parsed_data[c].address_updates # <<>> THEN parsed_data[c].address_updates[1]
    ELSE parsed_data[c].name_and_address_updates[1]

\* SET expiry_date = %s - INTERVAL '1 day', is_current = FALSE on the rows keys
ApplyCloses(t, keys, d) ==
    [i \in 1..Len(t) |->
        IF t[i].employee_key \in keys
        THEN [t[i] EXCEPT !.expiry_date = DayBefore(d), !.is_current = FALSE]
        ELSE t[i]]

\* the table as a statement of connection c sees it
ConnView(c) ==
    ApplyCloses(committed, table[c].closed, RaceEvent(c).effective_date)
        \o table[c].inserted

\* the keys of the rows the close statement's WHERE clause selects in t
WouldClose(t, emp, d) ==
    {t[i].employee_key : i \in {j \in 1..Len(t) : CloseCurrent(t, emp, d)[j] # t[j]}}

\* rows updated by the open transaction of another connection
LockedByOther(c) == UNION {table[o].closed : o \in Conns \ {c}}

RaceEntry(kind, u, prior, new) ==
    [operation_type |-> kind, employee_id |-> u.employee_id,
     effective_date |-> u.effective_date, prior_key |-> prior, new_key |-> new]

RaceInit ==
    /\ table = [c \in Conns |-> NoWrites]
    /\ committed = TwoEmployeesTable
    /\ nextKey = Len(TwoEmployeesTable) + 1
    /\ today = 2
    /\ seen = 0
    /\ pc = [c \in Conns |-> "idle"]
    /\ cur = [c \in Conns |-> NULL]
    /\ file = [c \in Conns |-> <<>>]
    /\ parsed_data = [c \in Conns |-> NoParsedData]
    /\ autocommit = [c \in Conns |-> TRUE]
    /\ result = [c \in Conns |-> FALSE]
    /\ counts = NoCounts
    /\ quality = FALSE
    /\ before = [c \in Conns |-> {}]
    /\ trace = [c \in Conns |-> <<>>]

\* main connects and parses, set_employee turns autocommit off; the insert
\* loop has nothing to do
RaceStart(c, f) ==
    /\ pc[c] = "idle"
    /\ file' = [file EXCEPT ![c] = f]
    /\ parsed_data' = [parsed_data EXCEPT ![c] = parse_employee_data(f, today)]
    /\ autocommit' = [autocommit EXCEPT ![c] = FALSE]
    /\ pc' = [pc EXCEPT ![c] = "close"]
    /\ UNCHANGED <<table, committed, nextKey, today, seen, cur, result, counts,
                   quality, before, trace>>

\* cursor.execute(close_sql) starts: the statement takes its snapshot
RaceCloseStart(c) ==
    /\ pc[c] = "close"
    /\ before' = [before EXCEPT ![c] =
                    WouldClose(ConnView(c), RaceEvent(c).employee_id,
                               RaceEvent(c).effective_date)]
    /\ pc' = [pc EXCEPT ![c] = "closing"]
    /\ UNCHANGED <<table, committed, nextKey, today, seen, cur, file, parsed_data,
                   autocommit, result, counts, quality, trace>>

\* cursor.execute(close_sql) returns: it had to wait while another open
\* transaction held one of its rows, and it updates the rows of its snapshot
\* whose committed version still satisfies the WHERE clause
RaceCloseFinish(c) ==
    /\ pc[c] = "closing"
    /\ before[c] \cap LockedByOther(c) = {}
    /\ table' = [table EXCEPT ![c].closed =
                    @ \cup (before[c] \cap
                            WouldClose(ConnView(c), RaceEvent(c).employee_id,
                                       RaceEvent(c).effective_date))]
    /\ pc' = [pc EXCEPT ![c] = "select"]
    /\ UNCHANGED <<committed, nextKey, today, seen, cur, file, parsed_data,
                   autocommit, result, counts, quality, before, trace>>

\* cursor.execute(select_sql) and fetchone(); without a row the iteration
\* ends and the commit is next
RaceSelect(c) ==
    /\ pc[c] = "select"
    /\ LET v == ConnView(c)
           ex == SelectExisting(v, RaceEvent(c).employee_id, RaceEvent(c).effective_date)
       IN  IF ex # 0
           THEN /\ cur' = [cur EXCEPT ![c] = v[ex]]
                /\ pc' = [pc EXCEPT ![c] = "insert"]
                /\ UNCHANGED trace
           ELSE /\ cur' = [cur EXCEPT ![c] = NULL]
                /\ pc' = [pc EXCEPT ![c] = "commit"]
                /\ trace' = [trace EXCEPT ![c] =
                                Append(@, RaceEntry(RaceKind(c), RaceEvent(c), 0, 0))]
    /\ UNCHANGED <<table, committed, nextKey, today, seen, file, parsed_data,
                   autocommit, result, counts, quality, before>>

\* cursor.execute(insert_sql, insert_params) with the fetched tuple
RaceInsert(c) ==
    /\ pc[c] = "insert"
    /\ table' = [table EXCEPT ![c].inserted =
                    Append(@, VersionRow(RaceKind(c), nextKey, cur[c], RaceEvent(c)))]
    /\ trace' = [trace EXCEPT ![c] =
                    Append(@, RaceEntry(RaceKind(c), RaceEvent(c),
                                        cur[c].employee_key, nextKey))]
    /\ nextKey' = nextKey + 1
    /\ pc' = [pc EXCEPT ![c] = "commit"]
    /\ UNCHANGED <<committed, today, seen, cur, file, parsed_data, autocommit,
                   result, counts, quality, before>>

\* connection.commit(), return True, and the finally clause
RaceCommit(c) ==
    /\ pc[c] = "commit"
    /\ committed' = Committed(ConnView(c), committed)
    /\ table' = [table EXCEPT ![c] = NoWrites]
    /\ result' = [result EXCEPT ![c] = TRUE]
    /\ autocommit' = [autocommit EXCEPT ![c] = TRUE]
    /\ pc' = [pc EXCEPT ![c] = "returned"]
    /\ UNCHANGED <<nextKey, today, seen, cur, file, parsed_data, counts, quality,
                   before, trace>>

\* a statement or the commit raises: connection.rollback(), return False, and
\* the finally clause
RaceFails(c) ==
    /\ pc[c] \in {"close", "closing", "select", "insert", "commit"}
    /\ table' = [table EXCEPT ![c] = NoWrites]
    /\ result' = [result EXCEPT ![c] = FALSE]
    /\ autocommit' = [autocommit EXCEPT ![c] = TRUE]
    /\ pc' = [pc EXCEPT ![c] = "returned"]
    /\ UNCHANGED <<committed, nextKey, today, seen, cur, file, parsed_data, counts,
                   quality, before, trace>>

RaceNext ==
    \/ \E c \in Conns : \E f \in ChangeFiles : RaceStart(c, f)
    \/ \E c \in Conns : RaceCloseStart(c)
    \/ \E c \in Conns : RaceCloseFinish(c)
    \/ \E c \in Conns : RaceSelect(c)
    \/ \E c \in Conns : RaceInsert(c)
    \/ \E c \in Conns : RaceCommit(c)
    \/ \E c \in Conns : RaceFails(c)

SpecRace == RaceInit /\ [][RaceNext]_vars


\* ================================================================ claims
RowsOf(t, e) == SelectSeq(t, LAMBDA r : r.employee_id = e)

HasKey(t, k) == \E i \in 1..Len(t) : t[i].employee_key = k

RowByKey(t, k) == t[CHOOSE i \in 1..Len(t) : t[i].employee_key = k]

\* the update the next iteration of an update loop processes
CurrentUpdate ==
    IF cur[1] = 2 THEN parsed_data.address_updates[cur[2]]
    ELSE parsed_data.name_and_address_updates[cur[2]]

\* set_employee has returned True
BatchCommitted == pc = "returned" /\ result = TRUE

\* C1: in the committed table every employee has at most one row with
\* is_current = TRUE, whatever batches were processed.
C1_AtMostOneCurrent ==
    \A e \in Employees : CurrentCount(committed, e) <= 1

\* C2: every committed row has effective_date < expiry_date.
C2_EffectiveBeforeExpiry ==
    \A i \in 1..Len(committed) :
        committed[i].effective_date < committed[i].expiry_date

\* C3: when set_employee returns False the table holds exactly the rows it held
\* when the batch started, and nothing of the batch was committed.
C3_RollbackRestoresTable ==
    (pc = "returned" /\ result = FALSE) => (table = before /\ committed = before)

\* C3 witness: a batch whose earlier event had appended a row failed and the
\* table is back to its contents before the batch.
C3_Witness ==
    /\ pc = "returned"
    /\ result = FALSE
    /\ \E i \in 1..Len(trace) : trace[i].new_key # 0
    /\ table = before

\* C4: a batch with an attribute-change event for an employee that has no
\* current row returns False and leaves the table as it was before the batch.
C4_ChangeWithoutCurrentFailsBatch ==
    (pc = "returned" /\ \E i \in 1..Len(trace) :
                            /\ trace[i].operation_type \in ChangeTypes
                            /\ trace[i].current_before = 0)
        => (result = FALSE /\ table = before /\ committed = before)

\* C5: the events of a batch are applied in the order of their positions in
\* the input file.
C5_AppliedInInputOrder ==
    \A i, j \in 1..Len(trace) : i < j => trace[i].pos < trace[j].pos

\* C6: the row appended by an attribute-change event has, for every address
\* field (and last_name) that is null in the event, the value of the prior row.
C6_AbsentFieldsCarriedForward ==
    \A i \in 1..Len(trace) :
        (/\ trace[i].operation_type \in ChangeTypes
         /\ trace[i].new_key # 0
         /\ HasKey(table, trace[i].new_key))
        => LET old == RowByKey(table, trace[i].prior_key)
               new == RowByKey(table, trace[i].new_key)
               ev == file[trace[i].pos].employee_data
           IN  /\ \A f \in AddressFields : ev[f] = NULL => new[f] = old[f]
               /\ (trace[i].operation_type = "UPDATE_NAME_ADDRESS"
                   /\ ev.last_name = NULL) => new.last_name = old.last_name

\* C7: a batch whose file holds a record of an unsupported operation type does
\* not return True and commits nothing.
C7_UnknownKindRejected ==
    (pc = "returned" /\ \E i \in 1..Len(file) :
                            file[i].operation_type \notin SupportedTypes)
        => (result = FALSE /\ committed = before)

\* C8: an INSERT for an employee that already has a current row appends no row.
C8_DuplicateInsertRejected ==
    \A i \in 1..Len(trace) :
        (trace[i].operation_type = "INSERT" /\ trace[i].current_before > 0)
            => trace[i].new_key = 0

\* the validity intervals [a.effective_date, a.expiry_date) and
\* [b.effective_date, b.expiry_date) share no day
NoOverlap(a, b) ==
    ~ \E x \in {a.effective_date, b.effective_date} :
          /\ a.effective_date <= x /\ x < a.expiry_date
          /\ b.effective_date <= x /\ x < b.expiry_date

\* e has exactly two rows: the first closed the day before d, the second
\* current from d on
TwoContiguousRows(t, e, d) ==
    LET rs == RowsOf(t, e)
    IN  /\ Len(rs) = 2
        /\ rs[1].expiry_date = d - 1
        /\ rs[1].is_current = FALSE
        /\ rs[2].effective_date = d
        /\ rs[2].expiry_date = ExpirySentinel
        /\ rs[2].is_current = TRUE
        /\ rs[1].expiry_date = rs[2].effective_date - 1
        /\ NoOverlap(rs[1], rs[2])

\* e has exactly the one row an INSERT creates
FreshlyInserted(t, e) ==
    LET rs == RowsOf(t, e)
    IN  /\ Len(rs) = 1
        /\ rs[1].is_current = TRUE
        /\ rs[1].expiry_date = ExpirySentinel

\* C9: an attribute-change event with effective date d applied to an employee
\* whose only row is the one its insert created leaves exactly two rows: row 1
\* closed with expiry_date = d - 1, row 2 current from d with the sentinel
\* expiry, the two intervals contiguous and not overlapping.
C9_InsertThenChange ==
    [][\A e \in Employees :
          (/\ pc = "run"
           /\ cur[1] \in {2, 3}
           /\ pc' = "run"
           /\ CurrentUpdate.employee_id = e
           /\ FreshlyInserted(table, e))
          => TwoContiguousRows(table', e, CurrentUpdate.effective_date)]_vars

\* C9 witness: a committed batch whose last event changed an employee inserted
\* on the same day, leaving the two rows.
C9_Witness ==
    /\ BatchCommitted
    /\ Len(trace) > 0
    /\ LET last == trace[Len(trace)]
       IN  /\ last.operation_type \in ChangeTypes
           /\ last.current_before = 1
           /\ Len(RowsOf(before, last.employee_id)) <= 1
           /\ TwoContiguousRows(table, last.employee_id, last.effective_date)
           /\ RowsOf(table, last.employee_id)[1].effective_date = last.effective_date

\* C10: a committed batch of n insert and attribute-change events leaves the
\* table with exactly n more rows.
C10_OneRowPerEvent ==
    BatchCommitted
        => Len(table) = Len(before)
                + Cardinality({i \in 1..Len(file) :
                                  file[i].operation_type \in SupportedTypes})


\* new is old, or old with only expiry_date and is_current changed
SameButClose(old, new) ==
    [new EXCEPT !.expiry_date = old.expiry_date, !.is_current = old.is_current] = old

\* every row of t is still in t2, at its place; a row that differs was current
\* in t and is closed in t2
OnlyClosed(t, t2) ==
    /\ Len(t2) >= Len(t)
    /\ \A i \in 1..Len(t) :
          /\ SameButClose(t[i], t2[i])
          /\ t2[i] # t[i] => (t[i].is_current /\ ~t2[i].is_current)

\* C11: no step of an event deletes a row or changes a business attribute of
\* an existing row; the only change to an existing row is the close, applied
\* to rows that are current, and a non-current row is never changed again.
\* (Only the rollback of a failed batch takes the batch's own rows away, and
\* the committed table never loses or rewrites a row.)
C11_RowsOnlyClosed ==
    [][/\ pc # "except" => OnlyClosed(table, table')
       /\ OnlyClosed(committed, committed')]_vars

\* C11 witness: an employee with a row closed by an earlier batch got a further
\* change with another effective date, and the older closed row is unchanged.
C11_Witness ==
    \E i \in 1..Len(before) :
        /\ ~before[i].is_current
        /\ table[i] = before[i]
        /\ \E j \in 1..Len(trace) :
              /\ trace[j].operation_type \in ChangeTypes
              /\ trace[j].employee_id = before[i].employee_id
              /\ trace[j].new_key # 0
              /\ trace[j].effective_date - 1 # before[i].expiry_date

\* C12: in the committed table the validity intervals of the rows of one
\* employee are pairwise non-overlapping.
C12_IntervalsDisjoint ==
    \A i, j \in 1..Len(committed) :
        (i < j /\ committed[i].employee_id = committed[j].employee_id)
            => NoOverlap(committed[i], committed[j])

\* C13: on every row, is_current is TRUE exactly when expiry_date is the
\* sentinel date.
C13_CurrentIffSentinel ==
    \A i \in 1..Len(table) :
        table[i].is_current <=> (table[i].expiry_date = ExpirySentinel)

\* C13 witness: an employee has a closed row with an ordinary expiry date and
\* a current row with the sentinel.
C13_Witness ==
    \E i, j \in 1..Len(table) :
        /\ table[i].employee_id = table[j].employee_id
        /\ ~table[i].is_current /\ table[i].expiry_date # ExpirySentinel
        /\ table[j].is_current /\ table[j].expiry_date = ExpirySentinel

\* the operation type of the update loop that is running
CurrentKind == IF cur[1] = 2 THEN "UPDATE_ADDRESS" ELSE "UPDATE_NAME_ADDRESS"

\* row r carries the attributes and the effective date of update u
CarriesEvent(r, kind, u) ==
    /\ \A f \in AddressFields : r[f] = u[f]
    /\ kind = "UPDATE_NAME_ADDRESS" => r.last_name = u.last_name
    /\ r.effective_date = u.effective_date

\* C14: applying an attribute-change event again, to an employee whose version
\* 2 is the row that event produced, closes version 2 and appends a version 3
\* with the event's attributes: three rows, only the third current.
C14_ReapplyAddsVersion ==
    [][\A e \in Employees :
          (/\ pc = "run"
           /\ cur[1] \in {2, 3}
           /\ pc' = "run"
           /\ CurrentUpdate.employee_id = e
           /\ Len(RowsOf(table, e)) = 2
           /\ ~RowsOf(table, e)[1].is_current
           /\ RowsOf(table, e)[2].is_current
           /\ CarriesEvent(RowsOf(table, e)[2], CurrentKind, CurrentUpdate))
          => LET rs == RowsOf(table', e)
             IN  /\ Len(rs) = 3
                 /\ rs[1] = RowsOf(table, e)[1]
                 /\ ~rs[2].is_current
                 /\ rs[2].expiry_date = CurrentUpdate.effective_date - 1
                 /\ rs[3].is_current
                 /\ rs[3].expiry_date = ExpirySentinel
                 /\ rs[3].first_name = RowsOf(table, e)[2].first_name
                 /\ CarriesEvent(rs[3], CurrentKind, CurrentUpdate)]_vars

\* C14 witness: a committed table where an employee's versions 2 and 3 carry
\* the same address from the same effective date, and only version 3 is current.
C14_Witness ==
    /\ BatchCommitted
    /\ \E e \in Employees :
          LET rs == RowsOf(table, e)
          IN  /\ Len(rs) = 3
              /\ ~rs[1].is_current /\ ~rs[2].is_current /\ rs[3].is_current
              /\ rs[2].effective_date = rs[3].effective_date
              /\ \A f \in AddressFields : rs[2][f] = rs[3][f]
              /\ rs[2].last_name = rs[3].last_name
              /\ \E j \in 1..Len(trace) :
                    /\ trace[j].prior_key = rs[2].employee_key
                    /\ trace[j].new_key = rs[3].employee_key


\* validate_data_quality has returned, along either of its paths
ValidationReturned == pc \in {"validated", "validate_except"}

\* t has no employee with two current rows and no row with an inverted range
QualityHolds(t) ==
    /\ \A e \in Employees : CurrentCount(t, e) <= 1
    /\ \A i \in 1..Len(t) : t[i].effective_date < t[i].expiry_date

\* C15 as stated: whenever validate_data_quality has returned, it returned
\* True exactly when no employee has more than one current row and no row has
\* effective_date >= expiry_date.
C15_ValidationExact ==
    ValidationReturned => (quality <=> QualityHolds(table))

\* C15 as amended: when both queries ran without raising, the function returned
\* True exactly when the table has no duplicate current rows and no inverted
\* range; with exactly one employee holding two current rows it found exactly
\* one duplicate employee and returned False.
C15_ValidationExactUnlessError ==
    pc = "validated" =>
        /\ quality <=> QualityHolds(table)
        /\ Cardinality({e \in Employees : CurrentCount(table, e) = 2}) = 1
           /\ (\A e \in Employees : CurrentCount(table, e) \in {0, 1, 2})
              => (Cardinality(DuplicateCurrents(table)) = 1 /\ quality = FALSE)

\* C15 witness: validation ran on a table where one employee has two current
\* rows and returned False.
C15_Witness ==
    /\ pc = "validated"
    /\ quality = FALSE
    /\ \E e \in Employees :
          /\ CurrentCount(table, e) = 2
          /\ \A o \in Employees \ {e} : CurrentCount(table, o) <= 1

\* C16: validation starts only after set_employee committed, and the step
\* leaves the table, committed and as seen by the connection, as it was.
C16_ValidationReadOnly ==
    [][(pc = "returned" /\ pc' \in {"validated", "validate_except"})
          => /\ result = TRUE
             /\ table = committed
             /\ table' = table
             /\ committed' = committed]_vars

\* C16 witness: validation returned False and the rows the batch committed are
\* still there.
C16_Witness ==
    /\ ValidationReturned
    /\ quality = FALSE
    /\ table = committed
    /\ Len(table) > Len(before)


\* every event of the three phases has been through its loop iteration
AllEventsProcessed ==
    Len(trace) = Len(parsed_data.new_employees) + Len(parsed_data.address_updates)
                 + Len(parsed_data.name_and_address_updates)

\* C18: within one set_employee call the committed table changes in no step
\* between or inside events and nothing written is taken back there; the
\* committed table changes only in the one step that ends the call after all
\* events of the three phases; the call ends either by that commit (returning
\* True, committed table = the connection's table) or by the rollback
\* (returning False, the connection's table = the committed table).
C18_TransactionPerBatch ==
    [][/\ (pc = "run" /\ pc' \in {"run", "except"})
            => (committed' = committed /\ Len(table') >= Len(table))
       /\ committed' # committed
            => (pc = "run" /\ pc' = "returned" /\ AllEventsProcessed)
       /\ (pc \in {"run", "except"} /\ pc' = "returned")
            => \/ /\ pc = "run"
                  /\ AllEventsProcessed
                  /\ result' = TRUE
                  /\ committed' = table
                  /\ table' = table
               \/ /\ pc = "except"
                  /\ result' = FALSE
                  /\ committed' = committed
                  /\ table' = committed]_vars

\* C18 witness: a call that processed events of two different phases has
\* returned True with all their rows committed at once.
C18_Witness ==
    /\ BatchCommitted
    /\ Len(committed) >= Len(before) + 2
    /\ \E i, j \in 1..Len(trace) : trace[i].operation_type # trace[j].operation_type


\* C19: an attribute-change event that found no current row of its employee
\* inserts no row, whatever closed rows the employee has.
C19_NoCurrentFromNothing ==
    \A i \in 1..Len(trace) :
        (trace[i].operation_type \in ChangeTypes /\ trace[i].current_before = 0)
            => trace[i].new_key = 0

\* C20: when an attribute-change event inserts a version, the row it fetched
\* to carry forward was a current row of the employee before the event and is
\* a closed row after it.
C20_CarriedFromJustClosed ==
    [][(pc = "run" /\ cur[1] \in {2, 3} /\ Len(trace') = Len(trace) + 1
        /\ trace'[Len(trace')].new_key # 0)
          => LET entry == trace'[Len(trace')]
             IN  /\ HasKey(table, entry.prior_key)
                 /\ RowByKey(table, entry.prior_key).employee_id = entry.employee_id
                 /\ RowByKey(table, entry.prior_key).is_current = TRUE
                 /\ RowByKey(table', entry.prior_key).is_current = FALSE]_vars


\* both connections committed a version that succeeds the same prior row
BothSucceedSamePrior ==
    /\ \A c \in Conns : pc[c] = "returned" /\ result[c] = TRUE /\ Len(trace[c]) = 1
    /\ trace[1][1].prior_key # 0
    /\ trace[1][1].prior_key = trace[2][1].prior_key

\* C17: when two concurrent batches have both committed a successor of the
\* same prior row of an employee, both successors are in the committed table
\* as current rows of that employee, which therefore has two current rows,
\* and the prior row is closed.
C17_SamePriorTwoCurrent ==
    BothSucceedSamePrior =>
        /\ trace[1][1].employee_id = trace[2][1].employee_id
        /\ CurrentCount(committed, trace[1][1].employee_id) = 2
        /\ \A c \in Conns :
              /\ HasKey(committed, trace[c][1].new_key)
              /\ RowByKey(committed, trace[c][1].new_key).is_current = TRUE
        /\ RowByKey(committed, trace[1][1].prior_key).is_current = FALSE

\* C17 witness: after an interleaving of the two batches' statements both have
\* committed a successor of E1's row 1 and E1 has two current rows.
C17_Witness ==
    /\ BothSucceedSamePrior
    /\ trace[1][1].prior_key = 1
    /\ CurrentCount(committed, "E1") = 2


\* the full name that the name components first and last spell: the
\* components that are present, separated by one space
FullNameOf(first, last) ==
    JoinStrip(IF first = NULL THEN "" ELSE first, IF last = NULL THEN "" ELSE last)

\* C21: every version appended by an attribute-change event has a full_name
\* that its own first_name and last_name spell; after a name/address update
\* the first_name is the prior row's and the full_name is that first_name, a
\* space and the event's last_name; after an address-only update first_name,
\* last_name and full_name are the prior row's.
C21_FullNameConsistent ==
    \A i \in 1..Len(trace) :
        (/\ trace[i].operation_type \in ChangeTypes
         /\ trace[i].new_key # 0
         /\ HasKey(table, trace[i].new_key))
        => LET old == RowByKey(table, trace[i].prior_key)
               new == RowByKey(table, trace[i].new_key)
               ev == file[trace[i].pos].employee_data
           IN  /\ new.first_name = old.first_name
               /\ new.full_name = FullNameOf(new.first_name, new.last_name)
               /\ trace[i].operation_type = "UPDATE_NAME_ADDRESS"
                    => new.full_name = FullNameOf(old.first_name, ev.last_name)
               /\ trace[i].operation_type = "UPDATE_ADDRESS"
                    => /\ new.last_name = old.last_name
                       /\ new.full_name = old.full_name


\* C22: an attribute-change event that fetched a prior version leaves every
\* row of the employee that was current closed, appends exactly one row, which
\* is current, and so leaves the employee with exactly one current row however
\* many it had before.
C22_ChangeLeavesOneCurrent ==
    [][(pc = "run" /\ cur[1] \in {2, 3} /\ Len(trace') = Len(trace) + 1
        /\ trace'[Len(trace')].new_key # 0)
          => LET e == trace'[Len(trace')].employee_id
             IN  /\ Len(table') = Len(table) + 1
                 /\ \A i \in 1..Len(table) :
                       (table[i].employee_id = e /\ table[i].is_current = TRUE)
                           => table'[i].is_current = FALSE
                 /\ table'[Len(table')].employee_id = e
                 /\ table'[Len(table')].is_current = TRUE
                 /\ CurrentCount(table', e) = 1]_vars

\* C22 witness: the last event processed was a change for an employee that had
\* two current rows, it appended a version, and the employee now has one
\* current row.
C22_Witness ==
    /\ pc = "run"
    /\ Len(trace) > 0
    /\ LET last == trace[Len(trace)]
       IN  /\ last.operation_type \in ChangeTypes
           /\ last.current_before = 2
           /\ last.new_key # 0
           /\ CurrentCount(table, last.employee_id) = 1

\* C23: while set_employee runs the connection has autocommit off, and once it
\* has returned, by commit or by rollback, autocommit is on again.
C23_AutocommitRestored ==
    /\ pc \in {"run", "except"} => autocommit = FALSE
    /\ pc \in {"returned", "validated", "validate_except"} => autocommit = TRUE

\* C23 witness: set_employee processed an event, failed, rolled back and
\* returned False with autocommit on.
C23_Witness ==
    /\ pc = "returned"
    /\ result = FALSE
    /\ Len(trace) > 0
    /\ autocommit = TRUE

====
